---- MODULE Spec2Model ----
(***************************************************************************)
(* Model of stock/stock_processor.py: process_stock, its helper            *)
(* _convert_price_to_float and the values they are called on.             *)
(*                                                                         *)
(* A call of process_stock is a small state machine: Call (the type check  *)
(* of line 80 and the initialisation of lines 83-88), one Step per         *)
(* iteration of the for loop of lines 90-142, and Return (lines 144-151).  *)
(* Spec follows one call on any input; PureSpec follows calls one after    *)
(* another, so that what one call leaves behind is visible to the next.    *)
(*                                                                         *)
(* Python values are tagged records.  A float is finite (a whole number of *)
(* units, Unit units making 1.0), nan, inf or -inf.  The finite floats the *)
(* model draws are multiples of 1/16, on which binary floating point is    *)
(* exact and round(x, 2) has its documented ties (half to even).           *)
(***************************************************************************)
EXTENDS Integers, Sequences, FiniteSets, TLC

\* Longest batch handed to process_stock.
MaxLen == 2
\* Longest batch of the specification that compares repeated calls.
MaxPureLen == 2

\* Line 134: the low stock threshold.
LowStockThreshold == 5

(***************************************************************************)
(* Floats.                                                                 *)
(***************************************************************************)
Unit == 16 * 25
Cent == Unit \div 100

Fin(n) == [t |-> "fin", v |-> n]
NaN == [t |-> "nan", v |-> 0]
PosInf == [t |-> "inf", v |-> 0]
NegInf == [t |-> "ninf", v |-> 0]

\* f < 0 on floats; every comparison with nan is false.
FLt0(f) == (f.t = "fin" /\ f.v < 0) \/ f.t = "ninf"

\* f >= 0 on floats.
FGe0(f) == (f.t = "fin" /\ f.v >= 0) \/ f.t = "inf"

\* a + b on floats.
FAdd(a, b) ==
    IF a.t = "nan" \/ b.t = "nan" THEN NaN
    ELSE IF a.t = "fin" /\ b.t = "fin" THEN Fin(a.v + b.v)
    ELSE IF a.t = "fin" THEN b
    ELSE IF b.t = "fin" THEN a
    ELSE IF a.t = b.t THEN a
    ELSE NaN

\* f * n for a float f and an int n that converts to a float.
FMulInt(f, n) ==
    IF f.t = "nan" THEN NaN
    ELSE IF f.t = "fin" THEN Fin(f.v * n)
    ELSE IF n = 0 THEN NaN
    ELSE IF n > 0 THEN f
    ELSE IF f.t = "inf" THEN NegInf ELSE PosInf

\* round(f, 2): the nearest multiple of 0.01, a tie going to the even one;
\* nan and the infinities are returned as they are.
Round2(f) ==
    IF f.t # "fin" THEN f
    ELSE LET q == f.v \div Cent
             r == f.v % Cent
         IN  Fin(Cent * (IF 2 * r < Cent THEN q
                         ELSE IF 2 * r > Cent THEN q + 1
                         ELSE IF q % 2 = 0 THEN q ELSE q + 1))

(***************************************************************************)
(* The values a record is made of.                                         *)
(***************************************************************************)
\* A str is the sequence of its characters.
RECURSIVE LStrip(_)
LStrip(s) == IF s # <<>> /\ Head(s) = " " THEN LStrip(Tail(s)) ELSE s

RECURSIVE RStrip(_)
RStrip(s) ==
    IF s # <<>> /\ s[Len(s)] = " " THEN RStrip(SubSeq(s, 1, Len(s) - 1)) ELSE s

\* str.strip()
Strip(s) == RStrip(LStrip(s))

IdStr(chars) == [kind |-> "str", chars |-> chars]
IdInt == [kind |-> "int", chars |-> <<"7">>]

PFloat(n) == [kind |-> "float", num |-> n, text |-> ""]
PStr(s) == [kind |-> "str", num |-> 0, text |-> s]
PNone == [kind |-> "none", num |-> 0, text |-> ""]
\* An int above the range of float, such as 10**400.
PBigInt == [kind |-> "bigint", num |-> 0, text |-> ""]

\* An int quantity: its value is n, or, when big, beyond the range of float
\* with the sign of n (10**400).
QInt(n) == [kind |-> "int", n |-> n, big |-> FALSE]
QBig == [kind |-> "int", n |-> 1, big |-> TRUE]
QStr == [kind |-> "str", n |-> 0, big |-> FALSE]

\* float(s) for a str s.
ParseFloatStr(s) ==
    CASE s = "1.5" -> [exc |-> "none", val |-> Fin(Unit + Unit \div 2)]
      [] s = "-2.0" -> [exc |-> "none", val |-> Fin(0 - 2 * Unit)]
      [] s = "nan" -> [exc |-> "none", val |-> NaN]
      [] s = "inf" -> [exc |-> "none", val |-> PosInf]
      [] s = "-inf" -> [exc |-> "none", val |-> NegInf]
      [] OTHER -> [exc |-> "ValueError", val |-> NaN]

\* The builtin float(price).
PyFloat(price) ==
    CASE price.kind = "float" -> [exc |-> "none", val |-> Fin(price.num)]
      [] price.kind = "str" -> ParseFloatStr(price.text)
      [] price.kind = "bigint" -> [exc |-> "OverflowError", val |-> NaN]
      [] OTHER -> [exc |-> "TypeError", val |-> NaN]

\* Lines 44-48.  What is logged comes back with the outcome.
_convert_price_to_float(price) ==
    LET r == PyFloat(price)
    IN  IF r.exc \in {"ValueError", "TypeError"}
        THEN [exc |-> "ValueError", val |-> NaN,
              logged |-> <<[level |-> "error", line |-> 47]>>]
        ELSE [exc |-> r.exc, val |-> r.val, logged |-> <<>>]

(***************************************************************************)
(* Records and top-level inputs.                                           *)
(***************************************************************************)
Rec(shape, arity, id, price, qty) ==
    [shape |-> shape, arity |-> arity, id |-> id, price |-> price, qty |-> qty]

Tup(id, price, qty) == Rec("tuple", 3, id, price, qty)

IdA == IdStr(<<"a">>)
IdB == IdStr(<<"b">>)

\* Prices float() converts.
GoodPrices ==
    {PFloat(Unit \div 16), PFloat(0 - Unit), PStr("1.5"),
     PStr("nan"), PStr("inf"), PStr("-inf")}

\* Prices float() refuses.
BadPrices == {PStr("invalid"), PNone, PBigInt}

GoodQtys ==
    {QInt(0 - 1), QInt(0), QInt(1), QInt(LowStockThreshold),
     QInt(LowStockThreshold + 1), QBig}

Records ==
    {Tup(IdA, p, q) : p \in GoodPrices, q \in GoodQtys \cup {QStr}}
    \cup {Tup(IdA, p, q) : p \in BadPrices, q \in {QInt(1), QStr}}
    \cup {Tup(IdB, PFloat(3 * (Unit \div 16)), q) :
            q \in {QInt(0 - 1), QInt(0), QInt(1)}}
    \cup {Tup(id, PFloat(Unit), QInt(0)) :
            id \in {IdStr(<<>>), IdStr(<<" ", " ">>), IdInt}}
    \cup {Tup(IdStr(<<" ", "c">>), PFloat(Unit), QInt(0 - 1))}
    \cup {Rec("tuple", 2, IdA, PFloat(Unit), QInt(0)),
          Rec("tuple", 4, IdA, PFloat(Unit), QInt(0)),
          Rec("list", 3, IdA, PFloat(Unit), QInt(0)),
          Rec("str", 11, IdA, PFloat(Unit), QInt(0))}

\* The sequences over S of length up to n.
SeqsUpTo(S, n) == UNION {[1..k -> S] : k \in 0..n}

Input(kind, items) == [kind |-> kind, items |-> items]

ListInputs == {Input("list", s) : s \in SeqsUpTo(Records, MaxLen)}

\* Top-level values that are not lists: a tuple of records, a str, None.
NonListInputs ==
    {Input("tuple", <<r>>) : r \in Records}
    \cup {Input("str", <<>>), Input("none", <<>>)}

Inputs == ListInputs \cup NonListInputs

\* The inputs of repeated calls: a record for each accumulator, a record
\* that is skipped, and a value that is no list.
PureRecords ==
    {Tup(IdA, PFloat(Unit \div 16), QInt(0 - 1)),
     Tup(IdB, PFloat(3 * (Unit \div 16)), QInt(0)),
     Tup(IdA, PStr("1.5"), QInt(LowStockThreshold)),
     Tup(IdA, PStr("invalid"), QInt(1))}

PureInputs ==
    {Input("list", s) : s \in SeqsUpTo(PureRecords, MaxPureLen)}
    \cup {Input("str", <<>>)}

(***************************************************************************)
(* State.                                                                  *)
(***************************************************************************)
VARIABLES
    pc,                   \* "idle", "loop" (inside the for loop), "done"
    product_list,         \* the argument of the current call
    i,                    \* 1-based index of the next record; 0: no loop
    total_value,
    out_of_stock_items,
    low_stock_items,
    negative_stock_items,
    log,                  \* what the call has handed to the logger
    result,               \* how the last call ended
    memo                  \* history: an earlier call and how it ended

vars ==
    <<pc, product_list, i, total_value, out_of_stock_items, low_stock_items,
      negative_stock_items, log, result, memo>>

Frame(t, o, l, n, lg) ==
    [total_value |-> t, out_of_stock_items |-> o, low_stock_items |-> l,
     negative_stock_items |-> n, log |-> lg]

CurFrame ==
    Frame(total_value, out_of_stock_items, low_stock_items,
          negative_stock_items, log)

Emit(fr, level, line, idx) ==
    [fr EXCEPT !.log = Append(@, [level |-> level, line |-> line, rec |-> idx])]

RECURSIVE EmitAll(_, _, _)
EmitAll(fr, entries, idx) ==
    IF entries = <<>> THEN fr
    ELSE EmitAll(Emit(fr, Head(entries).level, Head(entries).line, idx),
                 Tail(entries), idx)

\* A mutant of FreshFrame: the accumulators outlive the call.
StaleFrame ==
    Frame(total_value, out_of_stock_items, low_stock_items,
          negative_stock_items, <<>>)

\* Lines 83-86.
FreshFrame == Frame(Fin(0), <<>>, <<>>, <<>>, <<>>)

\* A mutant of IsListInput: any sequence passes.
IsListOrTupleInput(x) == x.kind \in {"list", "tuple"}

\* Line 80: isinstance(product_list, list)
IsListInput(x) == x.kind = "list"

(***************************************************************************)
(* One iteration of the for loop, lines 90-142, as a function of the       *)
(* accumulators before it.                                                 *)
(***************************************************************************)
\* Comparisons of an int quantity with a small int.
PyIntLt(q, k) == IF q.big THEN q.n < 0 ELSE q.n < k
PyIntEq(q, k) == ~q.big /\ q.n = k
PyIntLe(q, k) == PyIntLt(q, k) \/ PyIntEq(q, k)

\* A mutant of Categorize: the low stock test leaves its threshold out.
CategorizeBelowThreshold(fr, id, q) ==
    IF PyIntEq(q, 0)
    THEN [fr EXCEPT !.out_of_stock_items = Append(@, id)]
    ELSE IF PyIntLt(QInt(0), q.n) /\ PyIntLt(q, LowStockThreshold)
    THEN [fr EXCEPT !.low_stock_items = Append(@, id)]
    ELSE fr

\* A mutant of Categorize: out of stock is tested as stock_quantity <= 0.
CategorizeNonPositive(fr, id, q) ==
    IF PyIntLe(q, 0)
    THEN [fr EXCEPT !.out_of_stock_items = Append(@, id)]
    ELSE IF ~PyIntLe(q, 0) /\ PyIntLe(q, LowStockThreshold)
    THEN [fr EXCEPT !.low_stock_items = Append(@, id)]
    ELSE fr

\* Lines 132-135.
Categorize(fr, id, q) ==
    IF PyIntEq(q, 0)
    THEN [fr EXCEPT !.out_of_stock_items = Append(@, id)]
    ELSE IF ~PyIntLe(q, 0) /\ PyIntLe(q, LowStockThreshold)
    THEN [fr EXCEPT !.low_stock_items = Append(@, id)]
    ELSE fr

\* A mutant of EffectiveStock: a negative quantity is used as it is.
EffectiveStockUnclamped(q) == q

\* Lines 119-125: the quantity the value is computed from.
EffectiveStock(q) == IF PyIntLt(q, 0) THEN QInt(0) ELSE q

\* Lines 118-138.  price_float * effective_stock raises OverflowError when
\* the int is beyond the range of float; line 140 catches it and line 141
\* logs it, after which the loop goes on.
ValueStage(fr, rec, price_float, idx) ==
    LET q == rec.qty
        id == rec.id.chars
        fr1 == IF PyIntLt(q, 0)
               THEN Emit([fr EXCEPT !.negative_stock_items = Append(@, id)],
                         "warning", 121, idx)
               ELSE fr
        effective_stock == EffectiveStock(q)
    IN  IF effective_stock.big
        THEN Emit(fr1, "error", 141, idx)
        ELSE LET stock_value == FMulInt(price_float, effective_stock.n)
                 fr2 == [fr1 EXCEPT !.total_value = FAdd(@, stock_value)]
             IN  Emit(Categorize(fr2, id, q), "debug", 137, idx)

\* Line 114: isinstance(stock_quantity, int)
QtyOk(q) == q.kind = "int"

\* Lines 113-116.
QuantityStage(fr, rec, price_float, idx) ==
    IF ~QtyOk(rec.qty)
    THEN Emit(fr, "warning", 115, idx)
    ELSE ValueStage(fr, rec, price_float, idx)

\* A mutant of ClampPrice: a negative price is kept.
ClampPriceKept(val) == val

\* Lines 106-108: the price the value is computed from.
ClampPrice(val) == IF FLt0(val) THEN Fin(0) ELSE val

\* A mutant of PriceStage: the quantity is validated before the price.
PriceStageAfterQuantity(fr, rec, idx) ==
    IF ~QtyOk(rec.qty)
    THEN Emit(fr, "warning", 115, idx)
    ELSE LET c == _convert_price_to_float(rec.price)
             fr0 == EmitAll(fr, c.logged, idx)
         IN  IF c.exc = "ValueError" THEN Emit(fr0, "error", 110, idx)
             ELSE IF c.exc # "none" THEN Emit(fr0, "error", 141, idx)
             ELSE IF FLt0(c.val)
             THEN ValueStage(Emit(fr0, "warning", 107, idx), rec,
                             ClampPrice(c.val), idx)
             ELSE ValueStage(fr0, rec, c.val, idx)

\* Lines 103-111.  An exception of float() other than ValueError and
\* TypeError (OverflowError) passes the handler of line 109 and is caught
\* at line 140.
PriceStage(fr, rec, idx) ==
    LET c == _convert_price_to_float(rec.price)
        fr0 == EmitAll(fr, c.logged, idx)
    IN  IF c.exc = "ValueError" THEN Emit(fr0, "error", 110, idx)
        ELSE IF c.exc # "none" THEN Emit(fr0, "error", 141, idx)
        ELSE IF FLt0(c.val)
        THEN QuantityStage(Emit(fr0, "warning", 107, idx), rec,
                           ClampPrice(c.val), idx)
        ELSE QuantityStage(fr0, rec, c.val, idx)

\* A mutant of IdOk: a blank identifier passes.
IdOkUnstripped(id) == id.kind = "str"

\* Line 99: isinstance(product_id, str) and product_id.strip()
IdOk(id) == id.kind = "str" /\ Strip(id.chars) # <<>>

\* A mutant of StructOk: a list of three passes as a record.
StructOkAnySequence(rec) == rec.shape \in {"tuple", "list"} /\ rec.arity = 3

\* Line 92: isinstance(product, tuple) and len(product) == 3
StructOk(rec) == rec.shape = "tuple" /\ rec.arity = 3

\* The body of the for loop, lines 91-142.
ProcessRecord(fr, rec, idx) ==
    IF ~StructOk(rec) THEN Emit(fr, "warning", 93, idx)
    ELSE IF ~IdOk(rec.id) THEN Emit(fr, "warning", 100, idx)
    ELSE PriceStage(fr, rec, idx)

\* Lines 146-151.
StockResult(fr) ==
    [total_value |-> Round2(fr.total_value),
     out_of_stock_items |-> fr.out_of_stock_items,
     low_stock_items |-> fr.low_stock_items,
     negative_stock_items |-> fr.negative_stock_items]

\* process_stock on a list, as a function: the loop from a given frame.
RECURSIVE RunFrom(_, _, _)
RunFrom(fr, items, idx) ==
    IF idx > Len(items) THEN fr
    ELSE RunFrom(ProcessRecord(fr, items[idx], idx), items, idx + 1)

process_stock(items) == StockResult(RunFrom(FreshFrame, items, 1))

(***************************************************************************)
(* Actions.                                                                *)
(***************************************************************************)
NoResult == [kind |-> "none"]
Raised(exc) == [kind |-> "raise", exc |-> exc]
Returned(value) == [kind |-> "return", value |-> value]

NoMemo == [set |-> FALSE, input |-> Input("none", <<>>), result |-> NoResult]

Init ==
    /\ pc = "idle"
    /\ product_list = Input("none", <<>>)
    /\ i = 0
    /\ total_value = Fin(0)
    /\ out_of_stock_items = <<>>
    /\ low_stock_items = <<>>
    /\ negative_stock_items = <<>>
    /\ log = <<>>
    /\ result = NoResult
    /\ memo = NoMemo

SetFrame(fr) ==
    /\ total_value' = fr.total_value
    /\ out_of_stock_items' = fr.out_of_stock_items
    /\ low_stock_items' = fr.low_stock_items
    /\ negative_stock_items' = fr.negative_stock_items
    /\ log' = fr.log

\* Lines 80-81: the call of a value that is no list.  No local exists; the
\* accumulators are shown empty.
CallRaise(x) ==
    /\ pc = "idle"
    /\ ~IsListInput(x)
    /\ product_list' = x
    /\ i' = 0
    /\ SetFrame(Frame(Fin(0), <<>>, <<>>, <<>>, <<>>))
    /\ result' = Raised("TypeError")
    /\ pc' = "done"
    /\ UNCHANGED memo

\* Lines 80-88: the call of a list, up to the for loop.
CallEnter(x) ==
    /\ pc = "idle"
    /\ IsListInput(x)
    /\ product_list' = x
    /\ i' = 1
    /\ SetFrame(Emit(FreshFrame, "info", 88, 0))
    /\ result' = NoResult
    /\ pc' = "loop"
    /\ UNCHANGED memo

\* Lines 90-142: one iteration.
Step ==
    /\ pc = "loop"
    /\ i <= Len(product_list.items)
    /\ SetFrame(ProcessRecord(CurFrame, product_list.items[i], i))
    /\ i' = i + 1
    /\ UNCHANGED <<pc, product_list, result, memo>>

\* Lines 144-151.
Return ==
    /\ pc = "loop"
    /\ i > Len(product_list.items)
    /\ result' = Returned(StockResult(CurFrame))
    /\ log' = Append(log, [level |-> "info", line |-> 144, rec |-> 0])
    /\ pc' = "done"
    /\ UNCHANGED <<product_list, i, total_value, out_of_stock_items,
                   low_stock_items, negative_stock_items, memo>>

\* A call of process_stock on a value of S.
Call(S) ==
    /\ pc = "idle"
    /\ \E x \in S : CallRaise(x) \/ CallEnter(x)

Next ==
    \/ Call(Inputs)
    \/ Step
    \/ Return

Spec == Init /\ [][Next]_vars

\* The caller takes the outcome and is ready to call again.  Remember keeps
\* the call and its outcome in the history variable, Again does not.
Remember ==
    /\ pc = "done"
    /\ memo' = [set |-> TRUE, input |-> product_list, result |-> result]
    /\ pc' = "idle"
    /\ UNCHANGED <<product_list, i, total_value, out_of_stock_items,
                   low_stock_items, negative_stock_items, log, result>>

Again ==
    /\ pc = "done"
    /\ pc' = "idle"
    /\ UNCHANGED <<product_list, i, total_value, out_of_stock_items,
                   low_stock_items, negative_stock_items, log, result, memo>>

PureNext ==
    \/ Call(PureInputs)
    \/ Step
    \/ Return
    \/ Remember
    \/ Again

PureSpec == Init /\ [][PureNext]_vars

(***************************************************************************)
(* What the claims speak of, stated on the raw fields of a record.         *)
(***************************************************************************)
Items == product_list.items

WellFormed(rec) == rec.shape = "tuple" /\ rec.arity = 3

GoodId(rec) ==
    /\ rec.id.kind = "str"
    /\ \E k \in 1..Len(rec.id.chars) : rec.id.chars[k] # " "

Convertible(rec) == PyFloat(rec.price).exc = "none"

IntQty(rec) == rec.qty.kind = "int"

\* A record that passes the four validations.
IsValidRecord(rec) ==
    WellFormed(rec) /\ GoodId(rec) /\ Convertible(rec) /\ IntQty(rec)

\* A valid record whose value can be computed: it is not skipped.
Contributes(rec) == IsValidRecord(rec) /\ ~(rec.qty.big /\ rec.qty.n > 0)

NormalizedPrice(rec) ==
    LET v == PyFloat(rec.price).val IN IF FLt0(v) THEN Fin(0) ELSE v

EffectiveQty(rec) == IF rec.qty.n < 0 THEN 0 ELSE rec.qty.n

\* The sum of normalizedPrice * effectiveStock over the records of s that
\* are not skipped.
RECURSIVE ValueSum(_)
ValueSum(s) ==
    IF Len(s) = 0 THEN Fin(0)
    ELSE LET rec == s[Len(s)]
             rest == ValueSum(SubSeq(s, 1, Len(s) - 1))
         IN  IF Contributes(rec)
             THEN FAdd(rest, FMulInt(NormalizedPrice(rec), EffectiveQty(rec)))
             ELSE rest

\* r is x rounded to two decimals.
IsRounded2(r, x) ==
    IF x.t = "fin"
    THEN /\ r.t = "fin"
         /\ r.v % Cent = 0
         /\ 2 * (r.v - x.v) <= Cent
         /\ 2 * (x.v - r.v) <= Cent
    ELSE r = x

IdsOf(s) == [k \in 1..Len(s) |-> s[k].id.chars]

OutRec(rec) == Contributes(rec) /\ rec.qty.n = 0
LowRec(rec) ==
    Contributes(rec) /\ 0 < rec.qty.n /\ rec.qty.n <= LowStockThreshold
NegRec(rec) == IsValidRecord(rec) /\ rec.qty.n < 0

Elems(s) == {s[k] : k \in 1..Len(s)}

Finished == pc = "done" /\ result.kind = "return"

\* The records the loop has been through.
Processed == IF i = 0 THEN <<>> ELSE SubSeq(Items, 1, i - 1)

C3_TotalValue ==
    Finished =>
        /\ IsRounded2(result.value.total_value, ValueSum(Items))
        /\ (Items = <<>>) => (result.value.total_value = Fin(0))

C3_Witness ==
    /\ Finished
    /\ Len(Items) = 2
    /\ Contributes(Items[1]) /\ Contributes(Items[2])
    /\ Items[1].qty.n < 0
    /\ Items[2].qty.n > 0
    /\ result.value.total_value.t = "fin"
    /\ result.value.total_value # total_value

(***************************************************************************)
(* C4.  Each category list is the input-order subsequence of the           *)
(* identifiers of the valid records whose original quantity matches it.    *)
(***************************************************************************)
C4_Categories ==
    Finished =>
        /\ result.value.out_of_stock_items = IdsOf(SelectSeq(Items, OutRec))
        /\ result.value.low_stock_items = IdsOf(SelectSeq(Items, LowRec))
        /\ result.value.negative_stock_items = IdsOf(SelectSeq(Items, NegRec))

C4_Witness ==
    /\ Finished
    /\ result.value.out_of_stock_items = <<IdB.chars, IdA.chars>>
    /\ result.value.low_stock_items = <<>>

(***************************************************************************)
(* C5.  As claimed: no identifier is in two of the three lists.            *)
(***************************************************************************)
C5_NoIdentifierInTwoLists ==
    Finished =>
        LET o == Elems(result.value.out_of_stock_items)
            l == Elems(result.value.low_stock_items)
            n == Elems(result.value.negative_stock_items)
        IN  o \cap l = {} /\ o \cap n = {} /\ l \cap n = {}

\* C5, amended.  Each valid record puts its identifier in at most one of
\* the three lists: the lists together never hold more entries than valid
\* records were processed, and when the valid records carry pairwise
\* distinct identifiers no identifier is in two lists.
C5_OneListPerRecord ==
    LET valid == SelectSeq(Processed, IsValidRecord)
        o == Elems(out_of_stock_items)
        l == Elems(low_stock_items)
        n == Elems(negative_stock_items)
    IN  /\ Len(out_of_stock_items) + Len(low_stock_items)
             + Len(negative_stock_items) <= Len(valid)
        /\ (Cardinality(Elems(IdsOf(valid))) = Len(valid)) =>
               (o \cap l = {} /\ o \cap n = {} /\ l \cap n = {})

C5_Witness ==
    /\ Finished
    /\ Len(Items) = 2
    /\ result.value.out_of_stock_items = <<IdB.chars>>
    /\ result.value.negative_stock_items = <<IdA.chars>>

(***************************************************************************)
(* C6.  The total is never negative: total_value >= 0 at every point of    *)
(* the accumulation and in the result.                                     *)
(***************************************************************************)
C6_NonNegativeTotal ==
    /\ FGe0(total_value)
    /\ Finished => FGe0(result.value.total_value)

(***************************************************************************)
(* C7.  An iteration on a record that fails a validation leaves the total  *)
(* and the three lists as they were.                                       *)
(***************************************************************************)
C7_SkippedRecordChangesNothing ==
    [][(pc = "loop" /\ i' = i + 1 /\ ~IsValidRecord(Items[i])) =>
           UNCHANGED <<total_value, out_of_stock_items, low_stock_items,
                       negative_stock_items>>]_vars

\* A record failed at its price or quantity after its identifier passed,
\* with a total and a list already filled by the record before it.
C7_Witness ==
    /\ pc = "loop"
    /\ i = 3
    /\ Contributes(Items[1])
    /\ WellFormed(Items[2]) /\ GoodId(Items[2]) /\ ~IsValidRecord(Items[2])
    /\ total_value # Fin(0)
    /\ low_stock_items # <<>>

(***************************************************************************)
(* C8.  A record whose price parses to a negative number is kept: it adds  *)
(* exactly 0 to the total, and its quantity is checked and classified as   *)
(* that of the same record with price 0.                                   *)
(***************************************************************************)
NegativePriced(rec) ==
    WellFormed(rec) /\ GoodId(rec) /\ Convertible(rec)
        /\ FLt0(PyFloat(rec.price).val)

C8_NegativePriceClamped ==
    [][(pc = "loop" /\ i' = i + 1 /\ NegativePriced(Items[i])) =>
           LET zero == [Items[i] EXCEPT !.price = PFloat(0)]
               like == ProcessRecord(CurFrame, zero, i)
               rec == Items[i]
           IN  /\ total_value' = total_value
               /\ out_of_stock_items' = like.out_of_stock_items
               /\ low_stock_items' = like.low_stock_items
               /\ negative_stock_items' = like.negative_stock_items
               /\ OutRec(rec) =>
                      out_of_stock_items' = Append(out_of_stock_items, rec.id.chars)
               /\ LowRec(rec) =>
                      low_stock_items' = Append(low_stock_items, rec.id.chars)
               /\ NegRec(rec) =>
                      negative_stock_items' =
                          Append(negative_stock_items, rec.id.chars)]_vars

C8_Witness ==
    /\ pc = "loop"
    /\ i = 3
    /\ Contributes(Items[1])
    /\ NegativePriced(Items[2])
    /\ Items[2].qty = QInt(LowStockThreshold)
    /\ total_value.t = "fin" /\ total_value.v > 0
    /\ Len(low_stock_items) = 2
    /\ \E k \in 1..Len(log) : log[k].rec = 2 /\ log[k].line = 107

(***************************************************************************)
(* C9.  A call on an input returns what an earlier call on the same input  *)
(* returned, whatever calls were made in between.                          *)
(***************************************************************************)
C9_SameInputSameResult ==
    (pc = "done" /\ memo.set /\ memo.input = product_list) =>
        result = memo.result

C9_Witness ==
    /\ pc = "done"
    /\ memo.set
    /\ memo.input = product_list
    /\ product_list.kind = "list"
    /\ Len(Items) = 2
    /\ result.kind = "return"
    /\ result.value.negative_stock_items # <<>>
    /\ result.value.total_value # Fin(0)

(***************************************************************************)
(* C10.  The severity of what a skipped record logs is that of its first   *)
(* failing check, taken in the order structure, identifier, price,         *)
(* quantity.                                                               *)
(***************************************************************************)
\* The levels of the warnings and errors logged for record j.
Diagnostics(j) ==
    {log[k].level : k \in {m \in 1..Len(log) :
        log[m].rec = j /\ log[m].level \in {"warning", "error"}}}

NonNegativePrice(rec) == Convertible(rec) /\ FGe0(PyFloat(rec.price).val)

SeverityByFirstFailure(j) ==
    LET rec == Items[j]
        d == Diagnostics(j)
    IN  /\ ~WellFormed(rec) => d = {"warning"}
        /\ (WellFormed(rec) /\ ~GoodId(rec)) => d = {"warning"}
        /\ (WellFormed(rec) /\ GoodId(rec) /\ ~Convertible(rec)) =>
               d = {"error"}
        /\ (WellFormed(rec) /\ GoodId(rec) /\ Convertible(rec) /\ ~IntQty(rec)) =>
               d = {"warning"}

\* As claimed: moreover every record with a valid non-negative price and a
\* non-negative integer quantity logs no warning and no error.
C10_CleanRecordLogsNothing ==
    \A j \in 1..Len(Processed) :
        /\ SeverityByFirstFailure(j)
        /\ (IsValidRecord(Items[j]) /\ NonNegativePrice(Items[j])
                /\ Items[j].qty.n >= 0) => Diagnostics(j) = {}

\* C10, amended.  A record with a valid non-negative price and a
\* non-negative integer quantity logs no warning and no error provided the
\* quantity converts to a float; when it does not (10**400), the record is
\* skipped by the handler of line 140 and logged as an error.
C10_SeverityByFirstFailure ==
    \A j \in 1..Len(Processed) :
        /\ SeverityByFirstFailure(j)
        /\ (Contributes(Items[j]) /\ NonNegativePrice(Items[j])
                /\ Items[j].qty.n >= 0) => Diagnostics(j) = {}
        /\ (IsValidRecord(Items[j]) /\ ~Contributes(Items[j])) =>
               "error" \in Diagnostics(j)

\* A record with an unconvertible price and a quantity that is no int has
\* been logged, as an error.
C10_Witness ==
    /\ pc = "loop"
    /\ i = 2
    /\ WellFormed(Items[1]) /\ GoodId(Items[1])
    /\ ~Convertible(Items[1]) /\ ~IntQty(Items[1])
    /\ Diagnostics(1) = {"error"}

====
